---- MODULE Spec2Model ----
(***************************************************************************)
(* A model of tcontrol/statespace.py: the StateSpace class (construction,  *)
(* +, *, feedback, dual_system, to_controllable_form, place) and the       *)
(* helper _convert_to_ss.                                                  *)
(*                                                                         *)
(* Numbers.  numpy works in floating point; the model works in exact       *)
(* rational arithmetic.  A number is a pair <<n, d>> with d > 0 and        *)
(* gcd(n, d) = 1.  On the small integer and half-integer inputs used here  *)
(* the two agree on every comparison the code makes (shape tests,          *)
(* singular / non singular).                                               *)
(*                                                                         *)
(* Matrices.  A np.matrix is a non empty sequence of rows of equal length. *)
(* An array_like argument is a record [shape, data] as numpy sees it: a    *)
(* scalar has shape <<>>, a list has shape <<n>>, a nested list <<r, c>>.  *)
(*                                                                         *)
(* Exceptions.  Every method is an operator that returns a result record:  *)
(* [kind |-> "model" | "matrix" | "error" | "none", err, sys, mat].        *)
(***************************************************************************)
EXTENDS Integers, Sequences, FiniteSets, TLC

VARIABLES x, y, res, last

vars == <<x, y, res, last>>

(***************************************************************************)
(* Bounds of the model.                                                    *)
(***************************************************************************)
\* the largest number of states, inputs or outputs of a generated model, and
\* the largest number of rows or columns of a generated array
MaxDim == 2
\* generated entry patterns are numbered 1..MaxSeed
MaxSeed == 2
\* sampling times are None, 0, 1, .., MaxDt
MaxDt == 1
\* requested poles are the integers -MaxPole .. 0
MaxPole == 2

(***************************************************************************)
(* Exact rational numbers.                                                 *)
(***************************************************************************)
Abs(n) == IF n < 0 THEN -n ELSE n

RECURSIVE Gcd(_, _)
Gcd(a, b) == IF b = 0 THEN a ELSE Gcd(b, a % b)

QMake(n, d) ==
    LET s == IF d < 0 THEN -1 ELSE 1
        g == Gcd(Abs(n), Abs(d))
    IN  <<(s * n) \div g, (s * d) \div g>>

Q(n) == <<n, 1>>
QAdd(a, b) == QMake(a[1] * b[2] + b[1] * a[2], a[2] * b[2])
QNeg(a) == <<-a[1], a[2]>>
QSub(a, b) == QAdd(a, QNeg(b))
QMul(a, b) == QMake(a[1] * b[1], a[2] * b[2])
QIsZero(a) == a[1] = 0
QInv(a) == QMake(a[2], a[1])

RECURSIVE QSum(_)
QSum(s) == IF s = <<>> THEN Q(0) ELSE QAdd(s[1], QSum(Tail(s)))

(***************************************************************************)
(* numpy matrices.                                                         *)
(***************************************************************************)
Rows(M) == Len(M)
Cols(M) == Len(M[1])
Shape(M) == <<Rows(M), Cols(M)>>

\* TLC re-evaluates a function constructor at every application; AsSeq and
\* AsMatrix turn one into the sequence, or the sequence of rows, of its values
AsSeq(f) == f \o <<>>
AsMatrix(f) == [i \in 1..Len(f) |-> f[i] \o <<>>] \o <<>>

np_zeros2(r, c) == AsMatrix([i \in 1..r |-> [j \in 1..c |-> Q(0)]])
np_ones2(r, c) == AsMatrix([i \in 1..r |-> [j \in 1..c |-> Q(1)]])
np_eye(n) ==
    AsMatrix([i \in 1..n |-> [j \in 1..n |-> IF i = j THEN Q(1) ELSE Q(0)]])

\* M.T
MatT(M) == AsMatrix([j \in 1..Cols(M) |-> [i \in 1..Rows(M) |-> M[i][j]]])
\* q * M, M + N, M - N (equal shapes)
MatScale(q, M) ==
    AsMatrix([i \in 1..Rows(M) |-> [j \in 1..Cols(M) |-> QMul(q, M[i][j])]])
MatAdd(M, N) ==
    AsMatrix([i \in 1..Rows(M) |-> [j \in 1..Cols(M) |-> QAdd(M[i][j], N[i][j])]])
MatSub(M, N) ==
    AsMatrix([i \in 1..Rows(M) |-> [j \in 1..Cols(M) |-> QSub(M[i][j], N[i][j])]])
\* M * N of np.matrix is the matrix product; it needs Cols(M) = Rows(N)
Aligned(M, N) == Cols(M) = Rows(N)
MatMul(M, N) ==
    AsMatrix([i \in 1..Rows(M) |-> [j \in 1..Cols(N) |->
        QSum(AsSeq([k \in 1..Cols(M) |-> QMul(M[i][k], N[k][j])]))]])
\* np.concatenate((M, N), axis=0) and axis=1
ConcatRows(M, N) == M \o N
ConcatCols(M, N) == AsSeq([i \in 1..Rows(M) |-> M[i] \o N[i]])

\* M ** i for a square matrix, i >= 0
RECURSIVE MatPow(_, _)
MatPow(M, i) == IF i = 0 THEN np_eye(Rows(M)) ELSE MatMul(M, MatPow(M, i - 1))

\* the matrix without row i and column j
Minor(M, i, j) ==
    LET n == Rows(M)
    IN  AsMatrix([a \in 1..(n - 1) |-> [b \in 1..(n - 1) |->
            M[IF a < i THEN a ELSE a + 1][IF b < j THEN b ELSE b + 1]]])

RECURSIVE Det(_)
Det(M) ==
    IF Rows(M) = 1 THEN M[1][1]
    ELSE QSum(AsSeq([j \in 1..Rows(M) |->
            QMul(IF j % 2 = 1 THEN M[1][j] ELSE QNeg(M[1][j]), Det(Minor(M, 1, j)))]))

Singular(M) == QIsZero(Det(M))

\* np.linalg.inv of a non singular square matrix
MatInv(M) ==
    LET n == Rows(M)
        d == QInv(Det(M))
        Cof(i, j) == IF n = 1 THEN Q(1)
                     ELSE LET m == Det(Minor(M, i, j))
                          IN  IF (i + j) % 2 = 0 THEN m ELSE QNeg(m)
    IN  AsMatrix([i \in 1..n |-> [j \in 1..n |-> QMul(d, Cof(j, i))]])

(***************************************************************************)
(* Results and exceptions.                                                 *)
(***************************************************************************)
None == <<>>
NoSys == [A |-> <<>>, B |-> <<>>, C |-> <<>>, D |-> <<>>, dt |-> None,
          inputs |-> 0, outputs |-> 0]
NoResult == [kind |-> "none", err |-> "", sys |-> NoSys, mat |-> <<>>]
Raise(e) == [kind |-> "error", err |-> e, sys |-> NoSys, mat |-> <<>>]
Model(s) == [kind |-> "model", err |-> "", sys |-> s, mat |-> <<>>]
Matrix(m) == [kind |-> "matrix", err |-> "", sys |-> NoSys, mat |-> m]

(***************************************************************************)
(* array_like arguments and np.mat.                                        *)
(***************************************************************************)
Scalar(q) == [shape |-> <<>>, data |-> <<q>>]
List1(s) == [shape |-> <<Len(s)>>, data |-> s]
\* a np.matrix or nested list, stored row major
Array2(M) ==
    [shape |-> Shape(M),
     data |-> AsSeq([k \in 1..(Rows(M) * Cols(M)) |->
                  M[((k - 1) \div Cols(M)) + 1][((k - 1) % Cols(M)) + 1]])]

\* np.mat(a): a scalar becomes 1 x 1, a list 1 x n, a nested list r x c
np_mat(a) ==
    IF Len(a.shape) = 0 THEN <<<<a.data[1]>>>>
    ELSE IF Len(a.shape) = 1 THEN <<a.data>>
    ELSE AsMatrix([i \in 1..a.shape[1] |-> [j \in 1..a.shape[2] |->
             a.data[(i - 1) * a.shape[2] + j]]])

\* LinearTimeInvariant.__init__(inputs, outputs, dt)
LinearTimeInvariant(inputs, outputs, dt) ==
    [inputs |-> inputs, outputs |-> outputs, dt |-> dt]

\* a faulty __init__ that does not test the shape of D; C1_ShapeInvariant
\* fails on it
StateSpaceOfMatrices_NoDCheck(A, B, C, D, dt) ==
    IF Rows(A) # Cols(A) THEN Raise("ValueError")
    ELSE IF Rows(B) # Rows(A) THEN Raise("ValueError")
    ELSE IF Cols(C) # Rows(A) THEN Raise("ValueError")
    ELSE Model([A |-> A, B |-> B, C |-> C, D |-> D, dt |-> dt,
                inputs |-> Cols(B), outputs |-> Rows(C)])

\* StateSpace.__init__ after the conversion to np.matrix
StateSpaceOfMatrices(A, B, C, D, dt) ==
    IF Rows(A) # Cols(A) THEN Raise("ValueError")
    ELSE IF Rows(B) # Rows(A) THEN Raise("ValueError")
    ELSE IF Cols(C) # Rows(A) THEN Raise("ValueError")
    ELSE IF Shape(D) # <<Rows(C), Cols(B)>> THEN Raise("ValueError")
    ELSE LET base == LinearTimeInvariant(Cols(B), Rows(C), dt)
         IN  Model([A |-> A, B |-> B, C |-> C, D |-> D, dt |-> base.dt,
                    inputs |-> base.inputs, outputs |-> base.outputs])

\* StateSpace(A, B, C, D, dt=dt) on array_like arguments
StateSpace(A, B, C, D, dt) ==
    StateSpaceOfMatrices(np_mat(A), np_mat(B), np_mat(C), np_mat(D), dt)

\* self == other (StateSpace.__eq__): the four matrices, element by element
__eq__(self, other) ==
    /\ self.A = other.A
    /\ self.B = other.B
    /\ self.C = other.C
    /\ self.D = other.D

(***************************************************************************)
(* Parallel connection, self + other.                                      *)
(***************************************************************************)
\* the sampling time of self + other; ok is FALSE where the code raises
AddDt(self, other) ==
    IF self.dt = None /\ other.dt # None THEN [ok |-> TRUE, dt |-> other.dt]
    ELSE IF (self.dt # None /\ other.dt = None) \/ self.dt = other.dt
         THEN [ok |-> TRUE, dt |-> self.dt]
    ELSE [ok |-> FALSE, dt |-> None]

\* np.zeros of the joint order, self.A in the upper left block, other.A in the
\* lower right block and UR (n1 x n2) in the upper right block
BlockA(selfA, otherA, UR) ==
    LET n1 == Rows(selfA)
        n2 == Rows(otherA)
    IN  AsMatrix([i \in 1..(n1 + n2) |-> [j \in 1..(n1 + n2) |->
            IF i <= n1 /\ j <= n1 THEN selfA[i][j]
            ELSE IF i > n1 /\ j > n1 THEN otherA[i - n1][j - n1]
            ELSE IF i <= n1 /\ j > n1 THEN UR[i][j - n1]
            ELSE Q(0)]])

\* a faulty __add__ that stacks other.B above self.B; C2_Add fails on it
__add__other_first(self, other) ==
    IF Shape(self.D) # Shape(other.D) THEN Raise("ValueError")
    ELSE LET t == AddDt(self, other)
         IN  IF ~t.ok THEN Raise("ValueError")
             ELSE LET A == BlockA(self.A, other.A, np_zeros2(Rows(self.A), Rows(other.A)))
                      B == ConcatRows(other.B, self.B)
                      C == ConcatCols(self.C, other.C)
                      D == MatAdd(self.D, other.D)
                  IN  StateSpaceOfMatrices(A, B, C, D, t.dt)

\* self + other
__add__(self, other) ==
    IF Shape(self.D) # Shape(other.D) THEN Raise("ValueError")
    ELSE LET t == AddDt(self, other)
         IN  IF ~t.ok THEN Raise("ValueError")
             ELSE LET A == BlockA(self.A, other.A, np_zeros2(Rows(self.A), Rows(other.A)))
                      B == ConcatRows(self.B, other.B)
                      C == ConcatCols(self.C, other.C)
                      D == MatAdd(self.D, other.D)
                  IN  StateSpaceOfMatrices(A, B, C, D, t.dt)

(***************************************************************************)
(* Series connection, self * other.                                        *)
(***************************************************************************)
\* a faulty rule that tests the truth value of dt, so that an explicit 0
\* counts as unset; C3_SamplingTime fails on it
MulDt_ZeroUnset(self, other) ==
    LET unset(dt) == dt = None \/ dt = <<0>>
    IN  IF unset(self.dt) /\ ~unset(other.dt) THEN [ok |-> TRUE, dt |-> other.dt]
        ELSE IF (~unset(self.dt) /\ unset(other.dt)) \/ self.dt = other.dt
             THEN [ok |-> TRUE, dt |-> self.dt]
        ELSE [ok |-> FALSE, dt |-> None]

\* the sampling time of self * other; ok is FALSE where the code raises
MulDt(self, other) ==
    IF self.dt = None /\ other.dt # None THEN [ok |-> TRUE, dt |-> other.dt]
    ELSE IF (self.dt # None /\ other.dt = None) \/ self.dt = other.dt
         THEN [ok |-> TRUE, dt |-> self.dt]
    ELSE [ok |-> FALSE, dt |-> None]

\* the matrices B and C that __mul__ computes (lines 119 and 120)
MulB(self, other) == ConcatRows(other.B, MatMul(self.B, other.D))
MulC(self, other) == ConcatCols(MatMul(self.D, other.C), self.C)

\* self * other for a StateSpace other
__mul__(self, other) ==
    IF self.outputs # other.inputs THEN Raise("ValueError")
    ELSE LET t == MulDt(self, other)
         IN  IF ~t.ok THEN Raise("ValueError")
             \* self.B*other.C: numpy raises ValueError on shapes that are not aligned
             ELSE IF ~Aligned(self.B, other.C) THEN Raise("ValueError")
             ELSE LET A == BlockA(self.A, other.A, MatMul(self.B, other.C))
                      B == MulB(self, other)
                      C == MulC(self, other)
                      D == MatMul(self.D, other.D)
                  IN  StateSpaceOfMatrices(A, MatT(C), MatT(B), D, t.dt)

\* np.zeros(shape, dtype): the second positional argument is the dtype
\* (written here as the text of the argument)
np_zeros(shape, dtype) ==
    IF dtype \notin {"float", "int"} THEN Raise("TypeError")
    ELSE IF Len(shape) = 1 THEN Matrix(np_zeros2(1, shape[1]))
    ELSE Matrix(np_zeros2(shape[1], shape[2]))

\* _convert_to_ss(obj) for a float or int obj, called without keywords
_convert_to_ss(obj) ==
    LET inputs == 1
        outputs == 1
        A == <<<<Q(0)>>>>
        B == np_zeros(<<1, inputs>>, "float")
        \* np.zeros(outputs, 1): shape outputs, dtype 1
        C == np_zeros(<<outputs>>, "1")
    IN  IF B.kind = "error" THEN B
        ELSE IF C.kind = "error" THEN C
        ELSE StateSpaceOfMatrices(A, B.mat, C.mat,
                                  MatScale(obj, np_ones2(outputs, inputs)), None)

\* self * obj for a plain number obj
__mul__number(self, obj) ==
    LET other == _convert_to_ss(obj)
    IN  IF other.kind = "error" THEN other ELSE __mul__(self, other.sys)

(***************************************************************************)
(* StateSpace.dual_system.                                                 *)
(***************************************************************************)
\* a faulty dual that does not transpose D; C7_Dual fails on it
dual_system_KeepD(s) ==
    StateSpaceOfMatrices(MatT(s.A), MatT(s.C), MatT(s.B), s.D, s.dt)

dual_system(s) ==
    StateSpaceOfMatrices(MatT(s.A), MatT(s.C), MatT(s.B), MatT(s.D), s.dt)

(***************************************************************************)
(* StateSpace.feedback, for k.outputs = self.inputs and                    *)
(* k.inputs = self.outputs.                                                *)
(***************************************************************************)
\* a faulty F = I + sign * k.D * self.D; C8_Feedback fails on it
FeedbackF_Plus(self, k, sign) ==
    MatAdd(np_eye(self.inputs), MatMul(MatScale(Q(sign), k.D), self.D))

\* F = np.eye(self.inputs) - sign * k.D * self.D
FeedbackF(self, k, sign) ==
    MatSub(np_eye(self.inputs), MatMul(MatScale(Q(sign), k.D), self.D))

feedback(self, k, sign) ==
    LET F == FeedbackF(self, k, sign)
    IN  \* F.I: np.linalg.inv raises LinAlgError on a singular matrix
        IF Singular(F) THEN Raise("LinAlgError")
        ELSE LET F_inv == MatInv(F)
                 F_inv_D2 == MatMul(F_inv, k.D)
                 F_inv_C2 == MatMul(F_inv, k.C)
                 F_inv_D2_C1 == MatMul(F_inv_D2, self.C)
                 F_inv_D2_D1 == MatMul(F_inv_D2, self.D)
                 signed_B1 == MatScale(Q(sign), self.B)
                 signed_D1 == MatScale(Q(sign), self.D)
                 A1 == MatAdd(self.A, MatMul(signed_B1, F_inv_D2_C1))
                 A2 == MatMul(signed_B1, F_inv_C2)
                 A3 == MatMul(k.B, MatAdd(self.C, MatMul(signed_D1, F_inv_D2_C1)))
                 A4 == MatAdd(k.A, MatMul(MatMul(MatScale(Q(sign), k.B), self.D), F_inv_C2))
                 A == ConcatCols(ConcatRows(A1, A3), ConcatRows(A2, A4))
                 B1 == MatAdd(self.B, MatMul(signed_B1, F_inv_D2_D1))
                 B2 == MatAdd(MatMul(k.B, self.D),
                              MatMul(MatMul(MatScale(Q(sign), k.B), self.D), F_inv_D2_D1))
                 B == ConcatRows(B1, B2)
                 C1 == MatAdd(self.C, MatMul(signed_D1, F_inv_D2_C1))
                 C2 == MatMul(signed_D1, F_inv_C2)
                 C == ConcatCols(C1, C2)
                 D == MatAdd(self.D, MatMul(signed_D1, F_inv_D2_D1))
             IN  StateSpaceOfMatrices(A, B, C, D, None)

(***************************************************************************)
(* Controllability, the controllable form and pole placement, for a single *)
(* input system (the controllability matrix is square, so .I is inv).      *)
(***************************************************************************)
\* [B A*B ... A^(n-1)*B]
RECURSIVE ControllabilityUpTo(_, _)
ControllabilityUpTo(self, i) ==
    IF i = 0 THEN self.B
    ELSE ConcatCols(ControllabilityUpTo(self, i - 1), MatMul(MatPow(self.A, i), self.B))

controllability(self) == ControllabilityUpTo(self, Rows(self.A) - 1)

to_controllable_form(self) ==
    LET Co == controllability(self)
    IN  IF Singular(Co) THEN Raise("LinAlgError")
        ELSE LET M == MatInv(Co)
                 p == <<M[Rows(M)]>>
                 T == AsSeq([i \in 1..Rows(self.A) |->
                          MatMul(p, MatPow(self.A, i - 1))[1]])
             IN  IF Singular(T) THEN Raise("LinAlgError") ELSE Matrix(MatInv(T))

\* a[::-1]
Reversed(a) == AsSeq([k \in 1..Len(a) |-> a[Len(a) + 1 - k]])

\* np.poly(zeros) for a non empty list: the coefficients of prod (s - z), the
\* leading 1 first
RECURSIVE np_poly(_)
np_poly(zeros) ==
    IF zeros = <<>> THEN <<Q(1)>>
    ELSE LET a == np_poly(SubSeq(zeros, 1, Len(zeros) - 1))
             z == zeros[Len(zeros)]
         IN  AsSeq([k \in 1..(Len(a) + 1) |->
                 QSub(IF k <= Len(a) THEN a[k] ELSE Q(0),
                      IF k > 1 THEN QMul(z, a[k - 1]) ELSE Q(0))])

\* u + v for one dimensional arrays: equal lengths, or one of length 1 (numpy
\* broadcasting); ok is FALSE where numpy raises ValueError
np_add1(u, v) ==
    IF Len(u) = Len(v)
    THEN [ok |-> TRUE, a |-> AsSeq([k \in 1..Len(u) |-> QAdd(u[k], v[k])])]
    ELSE IF Len(u) = 1
    THEN [ok |-> TRUE, a |-> AsSeq([k \in 1..Len(v) |-> QAdd(u[1], v[k])])]
    ELSE IF Len(v) = 1
    THEN [ok |-> TRUE, a |-> AsSeq([k \in 1..Len(u) |-> QAdd(u[k], v[1])])]
    ELSE [ok |-> FALSE, a |-> <<>>]

\* self.place(poles), poles a non empty list
place(self, poles) ==
    LET Tr == to_controllable_form(self)
    IN  IF Tr.kind = "error" THEN Tr
        ELSE LET T == Tr.mat
                 T_I == MatInv(T)
                 A == MatMul(MatMul(T_I, self.A), T)
                 p0 == Tail(np_poly(poles))
                 p == Reversed(p0)
                 a == A[Rows(A)]
                 K == np_add1(Reversed(p), a)
             IN  IF ~K.ok THEN Raise("ValueError")
                 \* K*T.I is np.dot(K, T.I)
                 ELSE IF Len(K.a) # Rows(T_I) THEN Raise("ValueError")
                 ELSE Matrix(MatMul(<<K.a>>, T_I))

(***************************************************************************)
(* Inputs.                                                                 *)
(***************************************************************************)
Dims == 1..MaxDim
Seeds == 1..MaxSeed
SamplingTimes == {None} \cup {<<t>> : t \in 0..MaxDt}
Signs == {1, -1}
Gains == {Q(0), Q(2), QMake(1, 2)}

\* entry (i, j) of the generated array number seed for argument slot
\* (1 = A, 2 = B, 3 = C, 4 = D): an integer in -2 .. 2
Entry(seed, slot, i, j) ==
    Q((((seed + slot) * j + 2 * slot * i) % 5) - 2)

Pattern(r, c, seed, slot) ==
    AsMatrix([i \in 1..r |-> [j \in 1..c |-> Entry(seed, slot, i, j)]])

\* the outcomes of StateSpace(A, B, C, D, dt=dt) on the generated arrays of a
\* model with n states, m inputs and p outputs
Constructed(seeds, dts) ==
    { StateSpace(Array2(Pattern(a[1], a[1], a[4], 1)), Array2(Pattern(a[1], a[2], a[4], 2)),
                 Array2(Pattern(a[3], a[1], a[4], 3)), Array2(Pattern(a[3], a[2], a[4], 4)),
                 a[5]) :
        a \in Dims \X Dims \X Dims \X seeds \X dts }

\* array_like arguments of any shape: nested lists, lists and the scalar 0
RawArrays(slot) ==
    { Array2(Pattern(r, c, 1, slot)) : <<r, c>> \in Dims \X Dims }
    \cup { List1(Pattern(1, c, 1, slot)[1]) : c \in Dims }
    \cup { Scalar(Q(0)) }

\* non empty lists of at most MaxDim + 1 requested poles
PoleValues == { Q(-v) : v \in 0..MaxPole }
PoleLists == UNION { [1..k -> PoleValues] : k \in 1..(MaxDim + 1) }

\* the system of the test suite's setUp
SetUpSys ==
    StateSpace(Array2(<<<<Q(0), Q(1)>>, <<Q(-4), QMake(-1, 2)>>>>),
               Array2(<<<<Q(0)>>, <<Q(1)>>>>),
               Array2(<<<<Q(4), Q(0)>>>>),
               Array2(<<<<Q(0)>>>>), None).sys

\* the generated models, with the system of setUp
Systems(seeds, dts) ==
    { r.sys : r \in { c \in Constructed(seeds, dts) : c.kind = "model" } } \cup {SetUpSys}

(***************************************************************************)
(* State: two variables x and y that hold models, the call last (its       *)
(* operation and arguments) and the outcome res of that call.  A call      *)
(* whose op is "pending" has not run yet; a behaviour constructs x and y   *)
(* and makes one call on them.                                             *)
(***************************************************************************)
Call(op) == [op |-> op, args |-> <<>>, dt |-> None, sign |-> 0, g |-> Q(0),
             poles |-> <<>>]

\* x and y constructed, nothing called yet
Init ==
    /\ x \in Systems(Seeds, SamplingTimes)
    /\ y \in Systems(Seeds, SamplingTimes)
    /\ res = NoResult
    /\ last = Call("pending")

\* res = x + y
DoAdd ==
    /\ last.op = "pending"
    /\ res' = __add__(x, y)
    /\ last' = Call("add")
    /\ UNCHANGED <<x, y>>

\* res = x * y
DoMul ==
    /\ last.op = "pending"
    /\ res' = __mul__(x, y)
    /\ last' = Call("mul")
    /\ UNCHANGED <<x, y>>

\* res = x * g for a plain number g
DoMulNumber(g) ==
    /\ last.op = "pending"
    /\ res' = __mul__number(x, g)
    /\ last' = [Call("mulnumber") EXCEPT !.g = g]
    /\ UNCHANGED <<x, y>>

\* res = x.feedback(y, sign)
DoFeedback(sign) ==
    /\ last.op = "pending"
    /\ y.outputs = x.inputs
    /\ y.inputs = x.outputs
    /\ res' = feedback(x, y, sign)
    /\ last' = [Call("feedback") EXCEPT !.sign = sign]
    /\ UNCHANGED <<x, y>>

\* res = StateSpace.dual_system(x)
DoDual ==
    /\ last.op = "pending"
    /\ res' = dual_system(x)
    /\ last' = Call("dual")
    /\ UNCHANGED <<x, y>>

Next ==
    \/ DoAdd
    \/ DoMul
    \/ \E g \in Gains : DoMulNumber(g)
    \/ \E sign \in Signs : DoFeedback(sign)
    \/ DoDual

Spec == Init /\ [][Next]_vars

(***************************************************************************)
(* Construction from array_like arguments of any shape.                    *)
(***************************************************************************)
InitConstruct ==
    /\ x = SetUpSys
    /\ y = SetUpSys
    /\ res = NoResult
    /\ \E A \in RawArrays(1), B \in RawArrays(2), C \in RawArrays(3),
          D \in RawArrays(4), dt \in SamplingTimes :
          last = [Call("pending") EXCEPT !.args = <<A, B, C, D>>, !.dt = dt]

\* res = StateSpace(A, B, C, D, dt=dt)
Construct ==
    /\ last.op = "pending"
    /\ res' = StateSpace(last.args[1], last.args[2], last.args[3], last.args[4], last.dt)
    /\ last' = [last EXCEPT !.op = "init"]
    /\ UNCHANGED <<x, y>>

NextConstruct == Construct

SpecConstruct == InitConstruct /\ [][NextConstruct]_vars

(***************************************************************************)
(* Pole placement on the single input models.                              *)
(***************************************************************************)
InitPlace ==
    /\ x \in { s \in Systems(Seeds, {None}) : s.inputs = 1 }
    /\ y = SetUpSys
    /\ res = NoResult
    /\ \E poles \in PoleLists : last = [Call("pending") EXCEPT !.poles = poles]

\* res = x.place(poles)
DoPlace ==
    /\ last.op = "pending"
    /\ res' = place(x, last.poles)
    /\ last' = [last EXCEPT !.op = "place"]
    /\ UNCHANGED <<x, y>>

NextPlace == DoPlace

SpecPlace == InitPlace /\ [][NextPlace]_vars

(***************************************************************************)
(* Properties.                                                             *)
(***************************************************************************)
\* the shape numpy gives an array_like argument as a matrix: a scalar is 1 x 1,
\* a list of n numbers 1 x n
ShapeOf(a) ==
    IF Len(a.shape) = 0 THEN <<1, 1>>
    ELSE IF Len(a.shape) = 1 THEN <<1, a.shape[1]>>
    ELSE a.shape

\* one of the four shape rules of a model is broken by the arguments
BadShapes(args) ==
    LET sA == ShapeOf(args[1])
        sB == ShapeOf(args[2])
        sC == ShapeOf(args[3])
        sD == ShapeOf(args[4])
    IN  \/ sA[1] # sA[2]
        \/ sB[1] # sA[1]
        \/ sC[2] # sA[1]
        \/ sD # <<sC[1], sB[2]>>

\* C1: construction fails with ValueError and gives no model exactly when A is
\* not square, or rows(B) # rows(A), or cols(C) # rows(A), or
\* shape(D) # (rows(C), cols(B)); otherwise it gives a model with cols(B) inputs
\* and rows(C) outputs.  A scalar D counts as 1 x 1.
C1_ShapeInvariant ==
    last.op = "init" =>
        IF BadShapes(last.args) THEN res = Raise("ValueError")
        ELSE /\ res.kind = "model"
             /\ res.sys.inputs = ShapeOf(last.args[2])[2]
             /\ res.sys.outputs = ShapeOf(last.args[3])[1]
             /\ res.sys.dt = last.dt

\* a construction refused for the shape of D alone, D being a scalar
C1_Witness ==
    /\ last.op = "init"
    /\ ShapeOf(last.args[1]) = <<2, 2>>
    /\ ShapeOf(last.args[2]) = <<2, 2>>
    /\ ShapeOf(last.args[3]) = <<1, 2>>
    /\ last.args[4] = Scalar(Q(0))
    /\ res = Raise("ValueError")

\* two sampling times that can be combined
DtCompatible(a, b) == a = None \/ b = None \/ a = b

\* C2: s1 + s2 fails with ValueError when the shapes of the two D differ;
\* otherwise, the sampling times being compatible, it is a model of order
\* n1 + n2 with A = blockdiag(s1.A, s2.A), B = s1.B above s2.B, C = s1.C beside
\* s2.C and D = s1.D + s2.D.
C2_Add ==
    last.op = "add" =>
        IF Shape(x.D) # Shape(y.D) THEN res = Raise("ValueError")
        ELSE DtCompatible(x.dt, y.dt) =>
            LET n1 == Rows(x.A)
                n2 == Rows(y.A)
                r == res.sys
            IN  /\ res.kind = "model"
                /\ Shape(r.A) = <<n1 + n2, n1 + n2>>
                /\ \A i \in 1..(n1 + n2), j \in 1..(n1 + n2) :
                      r.A[i][j] = IF i <= n1 /\ j <= n1 THEN x.A[i][j]
                                  ELSE IF i > n1 /\ j > n1 THEN y.A[i - n1][j - n1]
                                  ELSE Q(0)
                /\ Shape(r.B) = <<n1 + n2, x.inputs>>
                /\ \A i \in 1..(n1 + n2), j \in 1..x.inputs :
                      r.B[i][j] = IF i <= n1 THEN x.B[i][j] ELSE y.B[i - n1][j]
                /\ Shape(r.C) = <<x.outputs, n1 + n2>>
                /\ \A i \in 1..x.outputs, j \in 1..(n1 + n2) :
                      r.C[i][j] = IF j <= n1 THEN x.C[i][j] ELSE y.C[i][j - n1]
                /\ Shape(r.D) = Shape(x.D)
                /\ \A i \in 1..x.outputs, j \in 1..x.inputs :
                      r.D[i][j] = QAdd(x.D[i][j], y.D[i][j])

\* ss_ + ss_ of the test suite: the four state block diagonal system
C2_Witness ==
    /\ last.op = "add"
    /\ x = SetUpSys
    /\ y = SetUpSys
    /\ res.kind = "model"
    /\ res.sys.A = << <<Q(0), Q(1), Q(0), Q(0)>>,
                      <<Q(-4), QMake(-1, 2), Q(0), Q(0)>>,
                      <<Q(0), Q(0), Q(0), Q(1)>>,
                      <<Q(0), Q(0), Q(-4), QMake(-1, 2)>> >>
    /\ res.sys.B = << <<Q(0)>>, <<Q(1)>>, <<Q(0)>>, <<Q(1)>> >>
    /\ res.sys.C = << <<Q(4), Q(0), Q(4), Q(0)>> >>
    /\ res.sys.D = << <<Q(0)>> >>

\* the shapes let x + y, or x * y, go through
ShapesCombine(op) ==
    IF op = "add" THEN Shape(x.D) = Shape(y.D)
    ELSE x.outputs = y.inputs /\ x.inputs = y.outputs

\* C3: for + and for *, the shapes being compatible: with one sampling time
\* unset the result carries the other one, with none set it has none, with two
\* equal ones it carries that value, and with two different ones the call fails
\* with ValueError; * and + decide alike.
C3_SamplingTime ==
    /\ MulDt(x, y) = AddDt(x, y)
    /\ (last.op \in {"add", "mul"} /\ ShapesCombine(last.op)) =>
          IF x.dt = None THEN res.kind = "model" /\ res.sys.dt = y.dt
          ELSE IF y.dt = None THEN res.kind = "model" /\ res.sys.dt = x.dt
          ELSE IF x.dt = y.dt THEN res.kind = "model" /\ res.sys.dt = x.dt
          ELSE res = Raise("ValueError")

\* x * y with no sampling time on x and an explicit 0 on y
C3_Witness ==
    /\ last.op = "mul"
    /\ ShapesCombine("mul")
    /\ x.dt = None
    /\ y.dt = <<0>>
    /\ res.kind = "model"
    /\ res.sys.dt = <<0>>

\* C4: with compatible sampling times, self * other fails with ValueError
\* whenever self.inputs # other.outputs and does not fail when
\* self.inputs = other.outputs.
C4_MulRequires ==
    (last.op = "mul" /\ DtCompatible(x.dt, y.dt)) =>
        /\ x.inputs # y.outputs => res = Raise("ValueError")
        /\ x.inputs = y.outputs => res.kind = "model"

\* C5: a successful self * other has A = blockdiag(self.A, other.A) with
\* self.B*other.C in the upper right block, B = (other.B ; self.B*other.D),
\* C = (self.D*other.C , self.C), D = self.D*other.D, other's input count and
\* self's output count.
C5_MulFields ==
    (last.op = "mul" /\ res.kind = "model") =>
        LET n1 == Rows(x.A)
            n2 == Rows(y.A)
            r == res.sys
            BC == MatMul(x.B, y.C)
        IN  /\ Shape(r.A) = <<n1 + n2, n1 + n2>>
            /\ \A i \in 1..(n1 + n2), j \in 1..(n1 + n2) :
                  r.A[i][j] = IF i <= n1 /\ j <= n1 THEN x.A[i][j]
                              ELSE IF i > n1 /\ j > n1 THEN y.A[i - n1][j - n1]
                              ELSE IF i <= n1 THEN BC[i][j - n1]
                              ELSE Q(0)
            /\ r.B = y.B \o MatMul(x.B, y.D)
            /\ r.C = ConcatCols(MatMul(x.D, y.C), x.C)
            /\ r.D = MatMul(x.D, y.D)
            /\ r.inputs = y.inputs
            /\ r.outputs = x.outputs

\* the coefficients of a monic polynomial from its roots, the leading 1 first
RECURSIVE MonicFromRoots(_)
MonicFromRoots(roots) ==
    IF roots = <<>> THEN <<Q(1)>>
    ELSE LET a == MonicFromRoots(Tail(roots))
             z == Head(roots)
         IN  AsSeq([k \in 1..(Len(a) + 1) |-> QSub(IF k <= Len(a) THEN a[k] ELSE Q(0),
                      IF k > 1 THEN QMul(z, a[k - 1]) ELSE Q(0))])

Trace(M) == QSum(AsSeq([i \in 1..Rows(M) |-> M[i][i]]))

\* the characteristic polynomial det(sI - M) by the Faddeev-LeVerrier
\* recursion: after k steps, the matrix M_k and the k + 1 leading coefficients
RECURSIVE FaddeevLeVerrier(_, _)
FaddeevLeVerrier(M, k) ==
    IF k = 0 THEN [N |-> np_zeros2(Rows(M), Rows(M)), cs |-> <<Q(1)>>]
    ELSE LET prev == FaddeevLeVerrier(M, k - 1)
             N == MatAdd(MatMul(M, prev.N),
                         MatScale(prev.cs[Len(prev.cs)], np_eye(Rows(M))))
             c == QMul(QMake(-1, k), Trace(MatMul(M, N)))
         IN  [N |-> N, cs |-> Append(prev.cs, c)]

CharPoly(M) == FaddeevLeVerrier(M, Rows(M)).cs

\* C6: for a controllable single input model of order n and n target poles,
\* the gain K of place(poles) makes A - B*K have the monic polynomial of the
\* target poles as its characteristic polynomial.
C6_PlacePoles ==
    (last.op = "place" /\ Len(last.poles) = Rows(x.A) /\ ~Singular(controllability(x))) =>
        /\ res.kind = "matrix"
        /\ Shape(res.mat) = <<1, Rows(x.A)>>
        /\ CharPoly(MatSub(x.A, MatMul(x.B, res.mat))) = MonicFromRoots(last.poles)

\* what a call of dual_system leaves: the transposes, the sampling time, and a
\* dual whose own dual equals x
C7_DualState ==
    last.op = "dual" =>
        LET r == res.sys
            dd == dual_system(r)
        IN  /\ res.kind = "model"
            /\ Shape(r.A) = Shape(x.A)
            /\ \A i \in 1..Rows(x.A), j \in 1..Cols(x.A) : r.A[j][i] = x.A[i][j]
            /\ Shape(r.B) = <<Cols(x.C), Rows(x.C)>>
            /\ \A i \in 1..Rows(x.C), j \in 1..Cols(x.C) : r.B[j][i] = x.C[i][j]
            /\ Shape(r.C) = <<Cols(x.B), Rows(x.B)>>
            /\ \A i \in 1..Rows(x.B), j \in 1..Cols(x.B) : r.C[j][i] = x.B[i][j]
            /\ Shape(r.D) = <<Cols(x.D), Rows(x.D)>>
            /\ \A i \in 1..Rows(x.D), j \in 1..Cols(x.D) : r.D[j][i] = x.D[i][j]
            /\ r.dt = x.dt
            /\ dd.kind = "model"
            /\ __eq__(dd.sys, x)
            /\ dd.sys.dt = x.dt

\* C7: dual_system(s) is a model with A, B, C, D = s.A, s.C, s.B, s.D
\* transposed and the sampling time of s; the dual of the dual equals s; s is
\* not modified.
C7_Dual == []C7_DualState /\ [][last'.op = "dual" => x' = x]_vars

\* the dual of a model with two states, one input, two outputs and a sampling time
C7_Witness ==
    /\ last.op = "dual"
    /\ Shape(x.A) = <<2, 2>>
    /\ x.A[1][2] # x.A[2][1]
    /\ x.inputs = 1
    /\ x.outputs = 2
    /\ x.dt = <<1>>
    /\ res.kind = "model"
    /\ res.sys.inputs = 2

\* F = I - sign * (k.D * self.D), entry by entry
LoopF(self, k, sign) ==
    AsMatrix([i \in 1..self.inputs |-> [j \in 1..self.inputs |-> QSub(IF i = j THEN Q(1) ELSE Q(0),
             QMul(Q(sign), QSum(AsSeq([m \in 1..Cols(k.D) |-> QMul(k.D[i][m], self.D[m][j])]))))]])

\* C8: for shape compatible self and k, feedback(k, sign) fails and gives no
\* model when F = I - sign*(k.D*self.D) is singular, and gives a model of order
\* n_self + n_k when F is invertible.
C8_Feedback ==
    last.op = "feedback" =>
        IF QIsZero(Det(LoopF(x, y, last.sign))) THEN res.kind = "error"
        ELSE res.kind = "model" /\ Shape(res.sys.A) = <<Rows(x.A) + Rows(y.A), Rows(x.A) + Rows(y.A)>>

\* positive unity feedback around a unity gain: self.D = k.D = 1, sign = +1
C8_Witness ==
    /\ last.op = "feedback"
    /\ last.sign = 1
    /\ x.D = <<<<Q(1)>>>>
    /\ y.D = <<<<Q(1)>>>>
    /\ res.kind = "error"

\* C9: self * g for a plain number g does not fail: g is converted to a state
\* space gain and the series connection returns a model.
C9_MulNumber ==
    last.op = "mulnumber" => _convert_to_ss(last.g).kind = "model" /\ res.kind # "error"

\* C10: for a controllable single input model of order n, place(poles) with
\* len(poles) # n fails and returns no gain matrix.
C10_PlaceLength ==
    (last.op = "place" /\ ~Singular(controllability(x)) /\ Len(last.poles) # Rows(x.A)) =>
        res.kind = "error"

====
